---- MODULE Spec2Model ----
(***************************************************************************)
(* State machine of the App component of src/src/App.jsx: the content      *)
(* loader (the mount effect `load`) and the lead submission flow           *)
(* (`submitLead` and the onChange handlers of the form).                   *)
(*                                                                         *)
(* JavaScript runs every handler and every continuation after an `await`   *)
(* to completion, so one action is one such run.  The network is the       *)
(* environment: it settles each fetch() promise and each json() promise,   *)
(* or leaves it pending for ever.  State cells hold references: a value    *)
(* carries the place it was created (`ref`) next to its contents (`json`), *)
(* so that an object literal of the component and a parsed body with the   *)
(* same contents remain two different values, as they are under ===.       *)
(* A state cell counts as written when its setter is called: the setters   *)
(* called in one run are committed together when the run ends.             *)
(***************************************************************************)
EXTENDS Integers, Sequences, FiniteSets, TLC

\* Largest number of submit events of one page session.
MaxSubmits == 2

(***************************************************************************)
(* Values                                                                  *)
(***************************************************************************)
Null == [ref |-> "null"]

EmptyServices == [ref |-> "init", json |-> <<>>]

\* The literal of the catch block; the en dash of its awards is written "-".
FallbackCompanyJson ==
  [name |-> "SPEED OF MASTRY",
   headline |-> "The leading technology partner across the Gulf and Saudi Arabia",
   subheadline |-> "From strategy to delivery, we engineer scalable platforms, cloud-native systems, and AI solutions that power regional leaders.",
   stats |-> << [label |-> "Projects Delivered", value |-> "+120"],
                [label |-> "Enterprise Uptime", value |-> "99.99%"],
                [label |-> "Avg. Launch Time", value |-> "8 weeks"] >>,
   awards |-> << "Top Technology Innovator - KSA",
                 "Best Cloud Modernization Partner - GCC" >>]

FallbackServicesJson ==
  << [title |-> "Custom Software",
      desc |-> "High-performance web and mobile applications tailored to your business.",
      bullets |-> <<"Product engineering", "Microservices", "API platforms">>],
     [title |-> "Cloud & DevOps",
      desc |-> "Secure, scalable cloud on AWS, Azure, and GCP with modern DevOps.",
      bullets |-> <<"Kubernetes", "CI/CD", "Observability">>],
     [title |-> "AI & Data",
      desc |-> "Applied AI, analytics, and data platforms for real impact.",
      bullets |-> <<"LLM apps", "MLOps", "Data lakes">>],
     [title |-> "Digital Transformation",
      desc |-> "From legacy to modern, accelerate delivery across the enterprise.",
      bullets |-> <<"Cloud migration", "ERP integrations", "Governance">>] >>

FallbackCompany == [ref |-> "literal", json |-> FallbackCompanyJson]

FallbackServices == [ref |-> "literal", json |-> FallbackServicesJson]

\* Bodies the backend may send for GET /api/company; the first has the
\* contents of the fallback literal.
CompanyBodies ==
  { FallbackCompanyJson,
    [name |-> "Acme", headline |-> "h", subheadline |-> "s",
     stats |-> <<>>, awards |-> <<>>] }

\* Bodies the backend may send for GET /api/services.
ServiceBodies ==
  { FallbackServicesJson,
    << [title |-> "Audit", desc |-> "d", bullets |-> <<"b">>] >> }

\* The value `await res.json()` yields for a body that parses.
Parsed(b) == [ref |-> "parsed", json |-> b]

Gets == {"company", "services"}

\* No body has been read.
NoBody == <<>>

EmptyLead == [name |-> "", email |-> "", company |-> "", message |-> "", country |-> ""]

LeadFields == {"name", "email", "company", "message", "country"}

\* Texts a user types into a field: none, or one the input accepts.
FieldValues == {"", "a"}

IdleStatus == [state |-> "idle", message |-> ""]

SubmittingStatus == [state |-> "submitting", message |-> ""]

SuccessStatus == [state |-> "success", message |-> "Thank you! We will reach out shortly."]

ErrorStatus(m) == [state |-> "error", message |-> m]

FailedToSubmit == "Failed to submit. Please try again."

\* err.message of a fetch() that rejects (a TypeError of the browser).
NetMessages == {"Failed to fetch", "Load failed"}

\* err.message of a res.json() that rejects (a SyntaxError of the browser).
ParseMessages == {"Unexpected end of JSON input"}

\* Marks a request whose handler has not called setLead.
NoReset == [state |-> "none", message |-> ""]

VARIABLES
  company,      \* useState(null)
  services,     \* useState([])
  loading,      \* useState(true)
  lead,         \* useState({name: '', ...})
  leadStatus,   \* useState({state: 'idle', message: ''})
  gets,         \* the two fetch() promises of load and the json() promise of each
  loadPc,       \* the await at which load is suspended
  c,            \* the local `c` of load
  posts,        \* the submitLead calls, in the order of their submit events
  lastArrived,  \* history: the submitLead call that finished last, 0 for none
  overlapped,   \* history: a submit event came while a call was unfinished
  retryLead     \* history: the record of the latest submit with the edits since

vars == <<company, services, loading, lead, leadStatus, gets, loadPc, c,
          posts, lastArrived, overlapped, retryLead>>

loadVars == <<company, services, loading, gets, loadPc, c>>

leadVars == <<lead, leadStatus, posts, lastArrived, overlapped, retryLead>>

Init ==
  /\ company = Null
  /\ services = EmptyServices
  /\ loading = TRUE
  /\ lead = EmptyLead
  /\ leadStatus = IdleStatus
  /\ gets = [g \in Gets |->
               [st |-> "pending", ok |-> FALSE, json |-> "none", body |-> NoBody]]
  /\ loadPc = "awaitAll"
  /\ c = Null
  /\ posts = <<>>
  /\ lastArrived = 0
  /\ overlapped = FALSE
  /\ retryLead = EmptyLead

(***************************************************************************)
(* Content loader                                                          *)
(***************************************************************************)

\* The catch block and the finally block of load.
CatchFallback ==
  /\ company' = FallbackCompany
  /\ services' = FallbackServices
  /\ loading' = FALSE
  /\ loadPc' = "done"

\* One of the two fetch() promises resolves with a response; res.ok is `ok`.
\* Promise.all resolves when the second one does, and load calls cRes.json().
GetResolves(g, ok) ==
  /\ gets[g].st = "pending"
  /\ LET g1 == [gets EXCEPT ![g].st = "resolved", ![g].ok = ok]
     IN  IF loadPc = "awaitAll" /\ \A h \in Gets : g1[h].st = "resolved"
           THEN /\ gets' = [g1 EXCEPT !["company"].json = "pending"]
                /\ loadPc' = "awaitCJson"
           ELSE /\ gets' = g1
                /\ loadPc' = loadPc
  /\ UNCHANGED <<company, services, loading, c>>
  /\ UNCHANGED leadVars

\* One of the two fetch() promises rejects.  Promise.all rejects with the
\* first rejection; a later one finds load finished.
GetRejects(g) ==
  /\ gets[g].st = "pending"
  /\ gets' = [gets EXCEPT ![g].st = "rejected"]
  /\ IF loadPc = "awaitAll"
       THEN CatchFallback
       ELSE UNCHANGED <<company, services, loading, loadPc>>
  /\ UNCHANGED c
  /\ UNCHANGED leadVars

\* A timeout that gives a hung GET up and falls back.
GetHangs_TimedOut(g) ==
  /\ gets[g].st = "pending"
  /\ gets' = [gets EXCEPT ![g].st = "hung"]
  /\ IF loadPc = "awaitAll"
       THEN CatchFallback
       ELSE UNCHANGED <<company, services, loading, loadPc>>
  /\ UNCHANGED c
  /\ UNCHANGED leadVars

\* One of the two fetch() promises stays pending for ever.
GetHangs(g) ==
  /\ gets[g].st = "pending"
  /\ gets' = [gets EXCEPT ![g].st = "hung"]
  /\ UNCHANGED <<company, services, loading, loadPc, c>>
  /\ UNCHANGED leadVars

\* setCompany(c) called as soon as the company body is parsed.
CJsonParsed_CommitsEarly(b) ==
  /\ loadPc = "awaitCJson"
  /\ gets["company"].json = "pending"
  /\ gets' = [gets EXCEPT !["company"].json = "parsed", !["company"].body = b,
                          !["services"].json = "pending"]
  /\ c' = Parsed(b)
  /\ company' = Parsed(b)
  /\ loadPc' = "awaitSJson"
  /\ UNCHANGED <<services, loading>>
  /\ UNCHANGED leadVars

\* cRes.json() resolves; load keeps the value in c and calls sRes.json().
CJsonParsed(b) ==
  /\ loadPc = "awaitCJson"
  /\ gets["company"].json = "pending"
  /\ gets' = [gets EXCEPT !["company"].json = "parsed", !["company"].body = b,
                          !["services"].json = "pending"]
  /\ c' = Parsed(b)
  /\ loadPc' = "awaitSJson"
  /\ UNCHANGED <<company, services, loading>>
  /\ UNCHANGED leadVars

\* setLoading(false) at the end of the try block instead of a finally block.
CJsonFails_NoFinally ==
  /\ loadPc = "awaitCJson"
  /\ gets["company"].json = "pending"
  /\ gets' = [gets EXCEPT !["company"].json = "failed"]
  /\ company' = FallbackCompany
  /\ services' = FallbackServices
  /\ loadPc' = "done"
  /\ UNCHANGED <<loading, c>>
  /\ UNCHANGED leadVars

\* cRes.json() rejects.
CJsonFails ==
  /\ loadPc = "awaitCJson"
  /\ gets["company"].json = "pending"
  /\ gets' = [gets EXCEPT !["company"].json = "failed"]
  /\ CatchFallback
  /\ UNCHANGED c
  /\ UNCHANGED leadVars

\* A load that throws unless both responses are ok.
SJsonParsed_StatusChecked(b) ==
  /\ loadPc = "awaitSJson"
  /\ gets["services"].json = "pending"
  /\ gets' = [gets EXCEPT !["services"].json = "parsed", !["services"].body = b]
  /\ IF \A g \in Gets : gets[g].ok
       THEN /\ company' = c
            /\ services' = Parsed(b)
            /\ loading' = FALSE
            /\ loadPc' = "done"
       ELSE CatchFallback
  /\ UNCHANGED c
  /\ UNCHANGED leadVars

\* sRes.json() resolves; load commits both values and clears loading.
SJsonParsed(b) ==
  /\ loadPc = "awaitSJson"
  /\ gets["services"].json = "pending"
  /\ gets' = [gets EXCEPT !["services"].json = "parsed", !["services"].body = b]
  /\ company' = c
  /\ services' = Parsed(b)
  /\ loading' = FALSE
  /\ loadPc' = "done"
  /\ UNCHANGED c
  /\ UNCHANGED leadVars

\* sRes.json() rejects.
SJsonFails ==
  /\ loadPc = "awaitSJson"
  /\ gets["services"].json = "pending"
  /\ gets' = [gets EXCEPT !["services"].json = "failed"]
  /\ CatchFallback
  /\ UNCHANGED c
  /\ UNCHANGED leadVars

\* The json() promise load awaits stays pending for ever.
BodyHangs(g) ==
  /\ gets[g].json = "pending"
  /\ gets' = [gets EXCEPT ![g].json = "hung"]
  /\ UNCHANGED <<company, services, loading, loadPc, c>>
  /\ UNCHANGED leadVars

(***************************************************************************)
(* Lead submission flow                                                    *)
(***************************************************************************)

\* A submitLead call is suspended at `await fetch` or at `await res.json()`.
InFlight(p) == p.fetch = "pending" \/ p.json = "pending"

\* The onChange handler of one input of the form.
Edit(f, v) ==
  /\ v # lead[f]
  /\ lead' = [lead EXCEPT ![f] = v]
  /\ retryLead' = [retryLead EXCEPT ![f] = v]
  /\ UNCHANGED <<leadStatus, posts, lastArrived, overlapped>>
  /\ UNCHANGED loadVars

\* The POST issued before the status is written.
Submit_FetchFirst ==
  /\ Len(posts) < MaxSubmits
  /\ LET req == [fetch |-> "pending", json |-> "none", err |-> "", hung |-> FALSE,
                 statusAtIssue |-> leadStatus, resetAt |-> NoReset]
         st1 == SubmittingStatus
     IN  /\ posts' = Append(posts, req)
         /\ leadStatus' = st1
  /\ overlapped' = (overlapped \/ \E r \in DOMAIN posts : InFlight(posts[r]))
  /\ retryLead' = lead
  /\ UNCHANGED <<lead, lastArrived>>
  /\ UNCHANGED loadVars

\* The POST issued without the status being written.
Submit_NoSubmitting ==
  /\ Len(posts) < MaxSubmits
  /\ posts' = Append(posts, [fetch |-> "pending", json |-> "none", err |-> "",
                             hung |-> FALSE, statusAtIssue |-> leadStatus,
                             resetAt |-> NoReset])
  /\ overlapped' = (overlapped \/ \E r \in DOMAIN posts : InFlight(posts[r]))
  /\ retryLead' = lead
  /\ UNCHANGED <<lead, leadStatus, lastArrived>>
  /\ UNCHANGED loadVars

\* submitLead up to its first await: the status is written, then the POST
\* is issued.  The body of the POST leaves the page and is not read again.
Submit ==
  /\ Len(posts) < MaxSubmits
  /\ LET st1 == SubmittingStatus
         req == [fetch |-> "pending", json |-> "none", err |-> "", hung |-> FALSE,
                 statusAtIssue |-> st1, resetAt |-> NoReset]
     IN  /\ leadStatus' = st1
         /\ posts' = Append(posts, req)
  /\ overlapped' = (overlapped \/ \E r \in DOMAIN posts : InFlight(posts[r]))
  /\ retryLead' = lead
  /\ UNCHANGED <<lead, lastArrived>>
  /\ UNCHANGED loadVars

\* A catch block that shows the fixed text for every failure.
Catch_FixedText(r, m) ==
  /\ leadStatus' = ErrorStatus(FailedToSubmit)
  /\ lastArrived' = r
  /\ UNCHANGED <<lead, overlapped, retryLead>>

\* A catch block that clears the form.
Catch_Resets(r, m) ==
  /\ leadStatus' = ErrorStatus(m)
  /\ lead' = EmptyLead
  /\ lastArrived' = r
  /\ UNCHANGED <<overlapped, retryLead>>

\* A catch block that drops the failure of every call but the latest.
Catch_LatestOnly(r, m) ==
  /\ leadStatus' = IF r = Len(posts) THEN ErrorStatus(m) ELSE leadStatus
  /\ lastArrived' = r
  /\ UNCHANGED <<lead, overlapped, retryLead>>

\* The catch block of submitLead, entered by call r with the error message m.
Catch(r, m) ==
  /\ leadStatus' = ErrorStatus(m)
  /\ lastArrived' = r
  /\ UNCHANGED <<lead, overlapped, retryLead>>

\* The fetch() of call r rejects with a message.
PostRejects(r, m) ==
  /\ posts[r].fetch = "pending"
  /\ ~posts[r].hung
  /\ posts' = [posts EXCEPT ![r].fetch = "rejected", ![r].err = m]
  /\ Catch(r, m)
  /\ UNCHANGED loadVars

\* The fetch() of call r resolves with a response; res.ok is `ok`.  A
\* response that is not ok throws the fixed message, another is read.
PostResponds(r, ok) ==
  /\ posts[r].fetch = "pending"
  /\ ~posts[r].hung
  /\ IF ok
       THEN /\ posts' = [posts EXCEPT ![r].fetch = "ok", ![r].json = "pending"]
            /\ UNCHANGED <<lead, leadStatus, lastArrived, overlapped, retryLead>>
       ELSE /\ posts' = [posts EXCEPT ![r].fetch = "notok", ![r].err = FailedToSubmit]
            /\ Catch(r, FailedToSubmit)
  /\ UNCHANGED loadVars

\* A success that leaves the form as it is.
PostJsonParsed_NoReset(r) ==
  /\ posts[r].json = "pending"
  /\ ~posts[r].hung
  /\ leadStatus' = SuccessStatus
  /\ posts' = [posts EXCEPT ![r].json = "parsed"]
  /\ lastArrived' = r
  /\ UNCHANGED <<lead, overlapped, retryLead>>
  /\ UNCHANGED loadVars

\* res.json() of call r resolves: the status is written, then the record
\* is reset.
PostJsonParsed(r) ==
  /\ posts[r].json = "pending"
  /\ ~posts[r].hung
  /\ LET st1 == SuccessStatus
     IN  /\ leadStatus' = st1
         /\ lead' = EmptyLead
         /\ posts' = [posts EXCEPT ![r].json = "parsed", ![r].resetAt = st1]
  /\ lastArrived' = r
  /\ UNCHANGED <<overlapped, retryLead>>
  /\ UNCHANGED loadVars

\* res.json() of call r rejects with a message.
PostJsonFails(r, m) ==
  /\ posts[r].json = "pending"
  /\ ~posts[r].hung
  /\ posts' = [posts EXCEPT ![r].json = "failed", ![r].err = m]
  /\ Catch(r, m)
  /\ UNCHANGED loadVars

\* The promise call r awaits stays pending for ever.
PostHangs(r) ==
  /\ InFlight(posts[r])
  /\ ~posts[r].hung
  /\ posts' = [posts EXCEPT ![r].hung = TRUE]
  /\ UNCHANGED <<lead, leadStatus, lastArrived, overlapped, retryLead>>
  /\ UNCHANGED loadVars

\* The submit button is not disabled.
SubmitEnabled == leadStatus.state # "submitting"

\* The required inputs of the form are filled in.
FormValid == lead.name # "" /\ lead.email # ""

(***************************************************************************)
(* Specifications                                                          *)
(***************************************************************************)
LoadNext ==
  \/ \E g \in Gets, ok \in BOOLEAN : GetResolves(g, ok)
  \/ \E g \in Gets : GetRejects(g)
  \/ \E g \in Gets : GetHangs(g)
  \/ \E b \in CompanyBodies : CJsonParsed(b)
  \/ CJsonFails
  \/ \E b \in ServiceBodies : SJsonParsed(b)
  \/ SJsonFails
  \/ \E g \in Gets : BodyHangs(g)

NetNext ==
  \/ \E r \in DOMAIN posts, m \in NetMessages : PostRejects(r, m)
  \/ \E r \in DOMAIN posts, ok \in BOOLEAN : PostResponds(r, ok)
  \/ \E r \in DOMAIN posts : PostJsonParsed(r)
  \/ \E r \in DOMAIN posts, m \in ParseMessages : PostJsonFails(r, m)
  \/ \E r \in DOMAIN posts : PostHangs(r)

EditNext == \E f \in LeadFields, v \in FieldValues : Edit(f, v)

\* The page as the browser drives it: a submit event is raised only while
\* the button is not disabled and the required inputs are filled in.
Next ==
  \/ LoadNext
  \/ EditNext
  \/ (SubmitEnabled /\ FormValid /\ Submit)
  \/ NetNext

Spec == Init /\ [][Next]_vars

\* The submission flow with the form bypassed: a submit event reaches
\* submitLead whatever the form shows.  The two GETs stay outstanding.
NextBypass ==
  \/ EditNext
  \/ Submit
  \/ NetNext

SpecBypass == Init /\ [][NextBypass]_vars

(***************************************************************************)
(* Properties                                                              *)
(***************************************************************************)

\* A GET of load failed: its fetch() rejected, or the json() of its response
\* rejected.
GetFailed(g) == gets[g].st = "rejected" \/ gets[g].json = "failed"

Outcome(p) ==
  IF p.fetch = "ok" /\ p.json = "parsed" THEN SuccessStatus
  ELSE IF p.fetch = "notok" THEN ErrorStatus(FailedToSubmit)
  ELSE ErrorStatus(p.err)

\* C2: the step in which the json() of an ok response resolves writes the
\* success status with its message and empties the record, and a call that
\* has reset the record did so with the success status already written.
C2_SuccessResets ==
  /\ [][\A r \in DOMAIN posts :
          (posts[r].json = "pending" /\ posts'[r].json = "parsed") =>
            /\ leadStatus' = SuccessStatus
            /\ lead' = EmptyLead
            /\ posts'[r].resetAt = SuccessStatus]_vars
  /\ [](\A r \in DOMAIN posts :
          posts[r].resetAt # NoReset => posts[r].resetAt = SuccessStatus)

\* C2 witness: a record with all five fields filled in was submitted, the
\* response was a success, and the record is empty.
C2_Witness ==
  /\ lastArrived # 0
  /\ posts[lastArrived].json = "parsed"
  /\ leadStatus = SuccessStatus
  /\ lead = EmptyLead
  /\ \A f \in LeadFields : retryLead[f] # ""

\* C3: the step in which a call finishes otherwise than by a parsed body of
\* an ok response writes the error status and leaves the record alone; the
\* message is the fixed text for a response that is not ok, and the message
\* of the failure for a rejection or a parse failure.
C3_FailureKeepsRecord ==
  [][\A r \in DOMAIN posts :
       (InFlight(posts[r]) /\ ~InFlight(posts'[r]) /\ posts'[r].json # "parsed") =>
         /\ leadStatus'.state = "error"
         /\ lead' = lead
         /\ posts'[r].resetAt = NoReset
         /\ posts'[r].fetch = "notok" => leadStatus'.message = FailedToSubmit
         /\ posts'[r].fetch # "notok" =>
              /\ posts'[r].err \in NetMessages \cup ParseMessages
              /\ leadStatus'.message = posts'[r].err]_vars

\* C3 witness: a filled-in record was submitted, the fetch rejected, and the
\* status shows the message of the rejection over the record as it was.
C3_Witness ==
  /\ lastArrived # 0
  /\ posts[lastArrived].fetch = "rejected"
  /\ leadStatus = ErrorStatus("Load failed")
  /\ \A f \in LeadFields : lead[f] # ""

\* C4, as claimed: whenever the status is error, the record holds what the
\* user entered for the attempt, overlapping submissions included.
C4_ErrorKeepsEntries == leadStatus.state = "error" => lead = retryLead

\* C4, amended: whenever the status is error and no submit event came while
\* another call was unfinished, the record holds what the user entered.
C4_ErrorKeepsEntriesNoOverlap ==
  (leadStatus.state = "error" /\ ~overlapped) => lead = retryLead

\* C4 witness: a second attempt, made after the first one finished, failed
\* over a record that is filled in.
C4_Witness ==
  /\ leadStatus.state = "error"
  /\ ~overlapped
  /\ Len(posts) = 2
  /\ lastArrived = 2
  /\ \A f \in LeadFields : lead[f] # ""

\* C5: loading is true exactly as long as load has not finished, from the
\* first state on; load finishes once, and no step sets loading back to true.
C5_LoadingOnce ==
  /\ [](loading <=> loadPc # "done")
  /\ [][loadPc = "done" => loadPc' = "done"]_vars
  /\ [][loading' => loading]_vars

\* C5 witness: both GETs rejected, the second one after load had finished.
C5_Witness ==
  /\ ~loading
  /\ \A g \in Gets : gets[g].st = "rejected"

\* C6: the pair is the initial pair, the fallback pair, or the two bodies as
\* received.
C6_NoMix ==
  \/ company = Null /\ services = EmptyServices
  \/ company = FallbackCompany /\ services = FallbackServices
  \/ /\ \A g \in Gets : gets[g].json = "parsed"
     /\ company = Parsed(gets["company"].body)
     /\ services = Parsed(gets["services"].body)

\* C6 witness: the company body was parsed, the services body was not, and
\* the fallback pair is committed; the other GET settled after a rejection.
C6_Witness ==
  /\ c # Null
  /\ gets["services"].json = "failed"
  /\ company = FallbackCompany
  /\ services = FallbackServices

\* The changes of status the flow allows.
Edges ==
  { <<"idle", "submitting">>, <<"submitting", "success">>,
    <<"submitting", "error">>, <<"success", "submitting">>,
    <<"error", "submitting">> }

\* C7: with submit events raised by the form only, every change of the
\* status follows one of the five edges.
C7_StatusEdges ==
  [][leadStatus' # leadStatus => <<leadStatus.state, leadStatus'.state>> \in Edges]_vars

\* C7 witness: a first attempt failed and a second one succeeded.
C7_Witness ==
  /\ Len(posts) = 2
  /\ posts[1].fetch \in {"rejected", "notok"}
  /\ posts[2].json = "parsed"
  /\ leadStatus.state = "success"

\* C8: every POST was issued with the submitting status, with an empty
\* message, already written by its submit.
C8_SubmittingBeforePost ==
  \A r \in DOMAIN posts : posts[r].statusAtIssue = SubmittingStatus

\* C8 witness: a second POST was issued after a first attempt had failed.
C8_Witness ==
  /\ Len(posts) = 2
  /\ ~overlapped
  /\ posts[1].fetch = "notok"
  /\ InFlight(posts[2])

GetHung(g) == gets[g].st = "hung" \/ gets[g].json = "hung"

\* C10, as claimed: a GET that never completes keeps loading true, and a
\* POST that never completes keeps the status at submitting.
C10_HungStaysStuck ==
  /\ (\E g \in Gets : GetHung(g)) => loading
  /\ (\E r \in DOMAIN posts : posts[r].hung) => leadStatus.state = "submitting"

\* C10, amended: a GET that never completes keeps loading true unless the
\* other GET rejects, and a POST that never completes keeps the status at
\* submitting.
C10_HungStaysStuckUnlessRejected ==
  /\ ((\E g \in Gets : GetHung(g)) /\ ~ \E g \in Gets : gets[g].st = "rejected")
       => loading
  /\ (\E r \in DOMAIN posts : posts[r].hung) => leadStatus.state = "submitting"

\* C10 witness: one GET hangs while the other has its response, and a POST
\* hangs.
C10_Witness ==
  /\ gets["company"].st = "hung"
  /\ gets["services"].st = "resolved"
  /\ loading
  /\ \E r \in DOMAIN posts : posts[r].hung
  /\ leadStatus.state = "submitting"

====
